---- MODULE Spec2Model ----
(***************************************************************************)
(* A model of fsm_agent: the FSM transition engine (fsm_agent/fsm.py), the *)
(* tool registry (fsm_agent/tool_registry.py) and the two orchestration    *)
(* loops that couple them (main.py, example/deterministic.py).             *)
(*                                                                         *)
(* Five specifications share the variables:                                *)
(*   Spec        the FSM API (and the guide of fsm_agent/utils.py) driven  *)
(*               by arbitrary calls over a family of constructor arguments;*)
(*   CallerSpec  the FSM API together with a caller that writes through    *)
(*               the references it shares with the FSM;                    *)
(*   RegSpec     the ToolRegistry API (register / execute / get_tools)     *)
(*               over the tools the repository defines;                    *)
(*   ApiSpec     the operations of the FSM and of the registry interleaved;*)
(*   LoopSpec    the LLM-driven loop of main.py and the handler-table loop *)
(*               of example/deterministic.py.                              *)
(* Python lists are sequences, a dict is a function, a raised exception is *)
(* a record in `raised`.                                                   *)
(***************************************************************************)
EXTENDS Integers, Sequences, FiniteSets, TLC

VARIABLES
    instance,         \* "usable": FSM(...) returned; "failed": __init__ raised
    states,           \* FSM.states: state name -> list of allowed next states
    current_state,    \* FSM.current_state
    terminal_states,  \* FSM.terminal_states (a list)
    args,             \* the arguments FSM(...) was called with
    last,             \* the last API call: its name, argument and return value
    raised,           \* the exception the last API call raised (NoError if none)
    path,             \* history of Spec: targets of the successful transition calls
    after_failure,    \* history: the call before the last one was a failing transition
    tools,            \* ToolRegistry._tools: the (name, callable) entries in insertion order
    context,          \* the dict the tools of example/deterministic.py share
    result,           \* the value the last execute returned; in main.py its local `result`
    invoked,          \* history: the callables the last API call invoked, with their kwargs
    program,          \* LoopSpec: "llm" (main.py) or "det" (example/deterministic.py)
    pc,               \* LoopSpec: "while", "generate", "parts", "done"
    step_count,       \* main.py: step_count
    parts,            \* main.py: the number of parts of the response not yet looked at
    user_input,       \* example/deterministic.py: user_input
    outcome,          \* how the program ended: "completed", "stopped", "error"
    handled,          \* history: the handlers example/deterministic.py has invoked, each
                      \* with the state it was looked up for and its execute calls
    nexec,            \* history: the execute calls of the current loop step
    seen,             \* history: what get_next_states and is_terminal first returned
                      \* since the last successful transition
    latest            \* history: for each tool name, the callable last registered under
                      \* it and those registered under it before

fsmVars == <<instance, states, current_state, terminal_states, args>>
regVars == <<tools, context, result, invoked>>
loopVars == <<program, pc, step_count, parts, user_input, outcome, handled, nexec>>
histVars == <<seen, latest>>
vars == <<instance, states, current_state, terminal_states, args, last, raised,
          path, after_failure, tools, context, result, invoked,
          program, pc, step_count, parts, user_input, outcome, handled, nexec,
          seen, latest>>

-----------------------------------------------------------------------------
(* Python values *)

\* `x in lst` for a Python list
InList(x, lst) == \E i \in 1..Len(lst) : lst[i] = x

\* `x in d` for a Python dict
InDict(x, d) == x \in DOMAIN d

NoError == [type |-> "none", what |-> "", current |-> "", target |-> "", allowed |-> <<>>]

Error(type, what, cur, target, allowed) ==
    [type |-> type, what |-> what, current |-> cur, target |-> target, allowed |-> allowed]

\* Python values: a str (with its len()), an int, None
PyStr(v, n) == [type |-> "str", v |-> v, n |-> n]
PyInt(n) == [type |-> "int", v |-> "", n |-> n]
NoValue == [type |-> "None", v |-> "", n |-> 0]

\* a formatted string: its fixed text and the value formatted into it
Text(text, arg) == [text |-> text, arg |-> arg]

EmptyDict == <<>>

NoCall == [op |-> "", arg |-> "", kwargs |-> EmptyDict, list |-> <<>>, bool |-> FALSE]

Called(op, arg, list, bool) ==
    [op |-> op, arg |-> arg, kwargs |-> EmptyDict, list |-> list, bool |-> bool]

CalledWith(op, arg, kwargs) ==
    [op |-> op, arg |-> arg, kwargs |-> kwargs, list |-> <<>>, bool |-> FALSE]

\* nothing read yet: `next` holds the first result of get_next_states and, once
\* it has been called again, the most recent one; `term` those of is_terminal
NoReads == [next |-> <<>>, term |-> <<>>]

\* the reads on record, one more result coming in
ReadNext(reads, list) ==
    [reads EXCEPT !.next = IF reads.next = <<>> THEN <<list>> ELSE <<reads.next[1], list>>]

ReadTerm(reads, bool) ==
    [reads EXCEPT !.term = IF reads.term = <<>> THEN <<bool>> ELSE <<reads.term[1], bool>>]

-----------------------------------------------------------------------------
(* fsm_agent/fsm.py *)

\* a constructor that validates the transition targets but not initial_state
InitError_NoInitialCheck(sts, initial_state) ==
    IF \E state \in DOMAIN sts : \E i \in 1..Len(sts[state]) : ~InDict(sts[state][i], sts)
    THEN Error("ValueError", "transition target not defined", "", "", <<>>)
    ELSE NoError

\* a constructor that validates initial_state but not the transition targets
InitError_NoTargetCheck(sts, initial_state) ==
    IF ~InDict(initial_state, sts)
    THEN Error("ValueError", "initial state not defined", "", initial_state, <<>>)
    ELSE NoError

\* the validation of FSM.__init__: the error it raises, NoError if it passes.
\* Of several undeclared targets the code reports the first in dict order; the
\* model reports one of them (the first within its list).
InitError(sts, initial_state) ==
    IF ~InDict(initial_state, sts)
    THEN Error("ValueError", "initial state not defined", "", initial_state, <<>>)
    ELSE IF \E state \in DOMAIN sts : \E i \in 1..Len(sts[state]) :
                ~InDict(sts[state][i], sts)
         THEN LET state == CHOOSE s \in DOMAIN sts :
                               \E i \in 1..Len(sts[s]) : ~InDict(sts[s][i], sts)
                  i == CHOOSE j \in 1..Len(sts[state]) :
                           /\ ~InDict(sts[state][j], sts)
                           /\ \A k \in 1..(j - 1) : InDict(sts[state][k], sts)
              IN Error("ValueError", "transition target not defined",
                       state, sts[state][i], <<>>)
         ELSE NoError

\* FSM.get_next_states: self.states.get(self.current_state, [])
get_next_states(sts, cur) == IF InDict(cur, sts) THEN sts[cur] ELSE <<>>

\* a guard that compares next_state with the first allowed state only
TransitionError_FirstOnly(sts, cur, next_state) ==
    IF get_next_states(sts, cur) = <<>> \/ get_next_states(sts, cur)[1] # next_state
    THEN Error("ValueError", "Invalid transition", cur, next_state,
               get_next_states(sts, cur))
    ELSE NoError

\* a guard that lets a state be entered again from itself
TransitionError_SelfAllowed(sts, cur, next_state) ==
    IF next_state # cur /\ ~InList(next_state, get_next_states(sts, cur))
    THEN Error("ValueError", "Invalid transition", cur, next_state,
               get_next_states(sts, cur))
    ELSE NoError

\* the guard of FSM.transition: the error it raises for next_state, NoError if allowed
TransitionError(sts, cur, next_state) ==
    IF ~InList(next_state, get_next_states(sts, cur))
    THEN Error("ValueError", "Invalid transition", cur, next_state,
               get_next_states(sts, cur))
    ELSE NoError

\* a transition that assigns current_state before it validates
transition_AssignFirst(sts, cur, next_state) == next_state

\* FSM.transition: the value of current_state after the call
transition(sts, cur, next_state) ==
    IF TransitionError(sts, cur, next_state) # NoError THEN cur ELSE next_state

\* an is_terminal that takes "no outgoing edge" for "terminal"
is_terminal_ByEdges(cur, terminals) == get_next_states(states, cur) = <<>>

\* FSM.is_terminal
is_terminal(cur, terminals) == InList(cur, terminals)

-----------------------------------------------------------------------------
(* fsm_agent/utils.py *)

\* generate_orchestrator_guide: the two lines of the guide. `current` is the
\* name formatted into "Current State: {...}"; `next` the names joined by ", "
\* into "Valid Next States: {...}", in their order; `none_terminal` is whether
\* the second line reads "Valid Next States: None (Terminal State)" instead,
\* which `if next_states:` decides. The tool registry passed in is not read.
generate_orchestrator_guide(sts, cur) ==
    [current |-> cur,
     next |-> IF get_next_states(sts, cur) # <<>> THEN get_next_states(sts, cur) ELSE <<>>,
     none_terminal |-> get_next_states(sts, cur) = <<>>]

-----------------------------------------------------------------------------
(* Constructor arguments *)

Universe == {"start", "end"}

EdgeLists ==
    {<<>>} \cup {<<a>> : a \in Universe} \cup {<<a, b>> : a \in Universe, b \in Universe}

SmallGraphs == UNION {[K -> EdgeLists] : K \in SUBSET Universe}

TerminalLists == {<<>>, <<"end">>, <<"start">>, <<"start", "end">>}

\* the graph of example/deterministic.py
ExampleGraph ==
    [start |-> <<"analyzing">>, analyzing |-> <<"approved", "rejected">>,
     approved |-> <<"end">>, rejected |-> <<"end">>, end |-> <<>>]

\* the graph of main.py
MainGraph ==
    [start |-> <<"researching">>, researching |-> <<"writing">>,
     writing |-> <<"reviewing">>, reviewing |-> <<"writing", "end">>, end |-> <<>>]

ExampleArgs ==
    [states |-> ExampleGraph, initial_state |-> "start", terminal_states |-> <<"end">>]

MainArgs ==
    [states |-> MainGraph, initial_state |-> "start", terminal_states |-> <<"end">>]

Configs ==
    {[states |-> g, initial_state |-> i, terminal_states |-> t] :
        g \in SmallGraphs, i \in Universe, t \in TerminalLists}
    \cup {ExampleArgs, MainArgs}

\* the names a caller passes to transition: every declared state, and undeclared ones
Targets == DOMAIN states \cup Universe \cup {"ghost"}

\* the most successful transitions a run of Spec makes
MaxPath == 3

-----------------------------------------------------------------------------
(* The FSM API *)

\* FSM.__init__(states, initial_state, terminal_states)
FSM_init(a) ==
    /\ args = a
    /\ states = a.states
    /\ current_state = a.initial_state
    /\ terminal_states = a.terminal_states
    /\ raised = InitError(a.states, a.initial_state)
    /\ instance = IF InitError(a.states, a.initial_state) = NoError
                  THEN "usable" ELSE "failed"
    /\ last = Called("__init__", a.initial_state, <<>>, FALSE)

\* ToolRegistry.__init__, and the empty context of example/deterministic.py
Registry_init ==
    /\ tools = <<>>
    /\ context = EmptyDict
    /\ result = Text("", NoValue)
    /\ invoked = <<>>

\* no orchestration loop is running
NoLoop ==
    /\ program = ""
    /\ pc = ""
    /\ step_count = 0
    /\ parts = 0
    /\ user_input = ""
    /\ outcome = ""
    /\ handled = <<>>
    /\ nexec = 0

Init ==
    /\ \E a \in Configs : FSM_init(a)
    /\ path = <<>>
    /\ after_failure = FALSE
    /\ Registry_init
    /\ NoLoop
    /\ seen = NoReads
    /\ latest = EmptyDict

\* fsm.transition(next_state); a run makes at most MaxPath successful ones
Transition(next_state) ==
    /\ instance = "usable"
    /\ TransitionError(states, current_state, next_state) = NoError
           => Len(path) < MaxPath
    /\ raised' = TransitionError(states, current_state, next_state)
    /\ current_state' = transition(states, current_state, next_state)
    /\ path' = IF raised' = NoError THEN Append(path, next_state) ELSE path
    /\ last' = Called("transition", next_state, <<>>, FALSE)
    /\ after_failure' = (last.op = "transition" /\ raised # NoError)
    /\ seen' = IF TransitionError(states, current_state, next_state) = NoError
               THEN NoReads ELSE seen
    /\ invoked' = <<>>
    /\ UNCHANGED <<instance, states, terminal_states, args, tools, context, result,
                   loopVars, latest>>

\* fsm.get_next_states()
GetNextStates ==
    /\ instance = "usable"
    /\ last' = Called("get_next_states", "", get_next_states(states, current_state), FALSE)
    /\ raised' = NoError
    /\ after_failure' = (last.op = "transition" /\ raised # NoError)
    /\ seen' = ReadNext(seen, get_next_states(states, current_state))
    /\ invoked' = <<>>
    /\ UNCHANGED <<fsmVars, path, tools, context, result, loopVars, latest>>

\* fsm.is_terminal()
IsTerminal ==
    /\ instance = "usable"
    /\ last' = Called("is_terminal", "", <<>>, is_terminal(current_state, terminal_states))
    /\ raised' = NoError
    /\ after_failure' = (last.op = "transition" /\ raised # NoError)
    /\ seen' = ReadTerm(seen, is_terminal(current_state, terminal_states))
    /\ invoked' = <<>>
    /\ UNCHANGED <<fsmVars, path, tools, context, result, loopVars, latest>>

\* generate_orchestrator_guide(fsm, tools)
Guide ==
    /\ instance = "usable"
    /\ LET guide == generate_orchestrator_guide(states, current_state)
       IN last' = Called("generate_orchestrator_guide", guide.current, guide.next,
                         guide.none_terminal)
    /\ raised' = NoError
    /\ after_failure' = (last.op = "transition" /\ raised # NoError)
    /\ invoked' = <<>>
    /\ UNCHANGED <<fsmVars, path, tools, context, result, loopVars, histVars>>

Next ==
    \/ \E next_state \in Targets : Transition(next_state)
    \/ GetNextStates
    \/ IsTerminal
    \/ Guide

Spec == Init /\ [][Next]_vars

-----------------------------------------------------------------------------
(* The FSM and the objects it shares with its caller *)

\* FSM.__init__ stores the mapping it is given (line 23: self.states = states,
\* no copy), and get_next_states returns the list found in it (line 41, no
\* copy): `states` is the one dict object that the caller's own name and
\* self.states both refer to, and a list handed out is the list inside it.
\* These are the statements of a caller that go through those references.

\* a two-state FSM: start -> end, end terminal
CallerConfigs ==
    {[states |-> [start |-> <<"end">>, end |-> <<>>], initial_state |-> "start",
      terminal_states |-> <<"end">>]}

\* graph[state] = transitions, on the mapping the caller passed to FSM(...)
MutateMapping(state, transitions) ==
    /\ instance = "usable"
    /\ states' = [k \in DOMAIN states \cup {state} |->
                     IF k = state THEN transitions ELSE states[k]]
    /\ last' = Called("__setitem__", state, transitions, FALSE)
    /\ raised' = NoError
    /\ after_failure' = (last.op = "transition" /\ raised # NoError)
    /\ invoked' = <<>>
    /\ UNCHANGED <<instance, current_state, terminal_states, args, path, tools, context,
                   result, loopVars, histVars>>

\* fsm.get_next_states().append(name): the list returned is the list of the
\* current state in the graph (the default [] of .get is a fresh list, but a
\* usable FSM never needs it); the lists stay among EdgeLists
MutateReturned(name) ==
    /\ instance = "usable"
    /\ Append(get_next_states(states, current_state), name) \in EdgeLists
    /\ states' = IF InDict(current_state, states)
                 THEN [states EXCEPT ![current_state] = Append(@, name)]
                 ELSE states
    /\ last' = Called("append", name, Append(get_next_states(states, current_state), name),
                      FALSE)
    /\ raised' = NoError
    /\ after_failure' = (last.op = "transition" /\ raised # NoError)
    /\ seen' = ReadNext(seen, get_next_states(states, current_state))
    /\ invoked' = <<>>
    /\ UNCHANGED <<instance, current_state, terminal_states, args, path, tools, context,
                   result, loopVars, latest>>

CallerInit ==
    /\ \E a \in CallerConfigs : FSM_init(a)
    /\ path = <<>>
    /\ after_failure = FALSE
    /\ Registry_init
    /\ NoLoop
    /\ seen = NoReads
    /\ latest = EmptyDict

CallerNext ==
    \/ \E next_state \in Targets : Transition(next_state)
    \/ GetNextStates
    \/ \E state \in Universe : \E transitions \in EdgeLists : MutateMapping(state, transitions)
    \/ \E name \in Universe : MutateReturned(name)

CallerSpec == CallerInit /\ [][CallerNext]_vars

-----------------------------------------------------------------------------
(* The FSM contract *)

\* the allowed-next list of the current state, read from the graph itself
Allowed == IF current_state \in DOMAIN states THEN states[current_state] ELSE <<>>

\* C1: a transition call whose target is not in the allowed-next list of the
\* current state raises an error naming the current state, the target and the
\* allowed list, and leaves current_state as it was; and a transition call that
\* follows a failed one, to a target that is allowed, succeeds.
C1_InvalidTransitionRaises ==
    [][/\ (/\ instance = "usable"
           /\ last'.op = "transition"
           /\ ~InList(last'.arg, Allowed))
          => /\ raised'.type = "ValueError"
             /\ raised'.current = current_state
             /\ raised'.target = last'.arg
             /\ raised'.allowed = Allowed
             /\ current_state' = current_state
       /\ (/\ instance = "usable"
           /\ last.op = "transition" /\ raised # NoError
           /\ last'.op = "transition"
           /\ InList(last'.arg, Allowed))
          => /\ raised' = NoError
             /\ current_state' = last'.arg]_vars

\* a successful transition right after a failed one
C1_Witness ==
    /\ instance = "usable"
    /\ after_failure
    /\ last.op = "transition"
    /\ raised = NoError
    /\ current_state = last.arg

\* whether p is a prefix of q
IsPrefix(p, q) == Len(p) <= Len(q) /\ \A i \in 1..Len(p) : p[i] = q[i]

ScenarioPath == <<"analyzing", "approved", "end">>

\* C2: a transition call whose target is listed for the current state raises
\* nothing and makes the target the current state; on the graph of the
\* deterministic example, along start -> analyzing -> approved -> end,
\* is_terminal() is false after 0, 1 and 2 transitions and true after the third.
C2_ValidTransitionSucceeds ==
    /\ [][(/\ instance = "usable"
           /\ last'.op = "transition"
           /\ InList(last'.arg, Allowed))
          => /\ raised' = NoError
             /\ current_state' = last'.arg
             /\ path' = Append(path, last'.arg)]_vars
    /\ [](/\ args = ExampleArgs
          /\ IsPrefix(path, ScenarioPath)
          /\ last.op = "is_terminal"
          => (last.bool <=> path = ScenarioPath))

\* the scenario run to its end, is_terminal() answering true
C2_Witness ==
    /\ args = ExampleArgs
    /\ path = ScenarioPath
    /\ current_state = "end"
    /\ last.op = "is_terminal"
    /\ last.bool

\* C3: the current state of a constructed FSM is always a key of the graph, and
\* it only ever changes along a declared edge.
C3_DeclaredStatesAndEdges ==
    /\ [](instance = "usable" => current_state \in DOMAIN states)
    /\ [][current_state' # current_state
          => InList(current_state', Allowed)]_vars

\* a failing call after the machine has moved
C3_Witness ==
    /\ instance = "usable"
    /\ path # <<>>
    /\ last.op = "transition"
    /\ raised # NoError
    /\ current_state = path[Len(path)]

\* the constructor arguments are not a closed graph around initial_state
BadArgs ==
    \/ args.initial_state \notin DOMAIN args.states
    \/ \E s \in DOMAIN args.states : \E i \in 1..Len(args.states[s]) :
           args.states[s][i] \notin DOMAIN args.states

\* C4: construction raises a configuration error and yields no usable instance
\* exactly when initial_state or some listed target is not a key of the graph;
\* otherwise it succeeds with current_state = initial_state.
C4_ConstructionValidates ==
    /\ instance = "failed" <=> BadArgs
    /\ instance = "failed" => (raised.type = "ValueError" /\ last.op = "__init__")
    /\ last.op = "__init__" /\ ~BadArgs
           => /\ instance = "usable"
              /\ raised = NoError
              /\ current_state = args.initial_state

\* a construction refused for a target alone: initial_state is declared
C4_Witness ==
    /\ instance = "failed"
    /\ args.initial_state \in DOMAIN args.states
    /\ raised.what = "transition target not defined"

\* C5: is_terminal() is true exactly when current_state is in terminal_states,
\* whatever the outgoing edges: at a state without outgoing edges
\* get_next_states() is empty, and is_terminal() is true if the state is listed
\* as terminal and false if it is not (a dead end).
C5_TerminalByMembership ==
    instance = "usable" =>
        /\ last.op = "is_terminal"
               => (last.bool <=> \E i \in 1..Len(terminal_states) :
                                      terminal_states[i] = current_state)
        /\ last.op = "get_next_states" => last.list = Allowed
        /\ last.op = "get_next_states" /\ states[current_state] = <<>>
               => last.list = <<>>

\* a dead end reached by a transition, is_terminal() answering false
C5_Witness ==
    /\ instance = "usable"
    /\ path # <<>>
    /\ states[current_state] = <<>>
    /\ last.op = "is_terminal"
    /\ ~last.bool

\* C15: the terminal_states of a constructed FSM are all keys of its graph;
\* and with an empty terminal_states is_terminal() never answers true.
C15_TerminalsDeclared ==
    instance = "usable" =>
        /\ \A i \in 1..Len(terminal_states) : terminal_states[i] \in DOMAIN states
        /\ (terminal_states = <<>> /\ last.op = "is_terminal") => ~last.bool

\* C19: a state whose allowed-next list is empty is absorbing: from then on
\* every transition call fails, whatever its target (the state itself
\* included), and current_state stays; a terminal state that has outgoing
\* edges is left by a transition to any of its listed targets.
C19_EmptyListAbsorbs ==
    /\ [][(instance = "usable" /\ Allowed = <<>>)
          => /\ current_state' = current_state
             /\ last'.op = "transition" => raised'.type = "ValueError"]_vars
    /\ [][(/\ instance = "usable"
           /\ \E i \in 1..Len(terminal_states) : terminal_states[i] = current_state
           /\ last'.op = "transition"
           /\ InList(last'.arg, Allowed))
          => /\ raised' = NoError
             /\ current_state' = last'.arg]_vars

\* a machine that began at a terminal state with an edge, left it for a state
\* without edges, and was then refused a transition to that state itself
C19_Witness ==
    /\ instance = "usable"
    /\ args.initial_state = "start"
    /\ InList("start", terminal_states)
    /\ path = <<"end">>
    /\ current_state = "end"
    /\ states["end"] = <<>>
    /\ last.op = "transition"
    /\ last.arg = "end"
    /\ raised.type = "ValueError"

-----------------------------------------------------------------------------
(* The tools the repository registers (main.py, example/deterministic.py) *)

\* the callables of the two programs, and "review_article#2": a second
\* function a caller defines with the name review_article (one that approves
\* whatever it is given), to register in place of the first
Funcs == {"research_web", "write_article", "review_article", "transition_state",
          "report_sentiment", "review_article#2"}

\* func.__name__
FuncName(func) == IF func = "review_article#2" THEN "review_article" ELSE func

\* the parameters without a default
Required(func) ==
    CASE func = "research_web" -> {"topic"}
      [] func = "write_article" -> {"topic", "research_summary"}
      [] func = "review_article" -> {"article_content"}
      [] func = "review_article#2" -> {"article_content"}
      [] func = "transition_state" -> {"next_state"}
      [] func = "report_sentiment" -> {"score", "reason"}

\* the parameters with a default
Optional(func) == IF func = "transition_state" THEN {"reason"} ELSE {}

\* what a call func(**kwargs) delivers: the exception raised (NoError if none),
\* the value returned, and the FSM state and shared context it leaves
Outcome(err, value, cur, ctx) ==
    [raised |-> err, value |-> value, current_state |-> cur, context |-> ctx]

\* Python binding the keyword arguments to the parameters of func
BindError(func, kwargs) ==
    IF \E k \in DOMAIN kwargs : k \notin Required(func) \cup Optional(func)
    THEN Error("TypeError", "unexpected keyword argument", "", FuncName(func), <<>>)
    ELSE IF \E k \in Required(func) : k \notin DOMAIN kwargs
         THEN Error("TypeError", "missing required argument", "", FuncName(func), <<>>)
         ELSE NoError

\* the body of each tool, its arguments bound
Body(func, kwargs, sts, cur, ctx) ==
    CASE func = "research_web" ->
            Outcome(NoError, Text("Research results for", kwargs.topic), cur, ctx)
      [] func = "write_article" ->
            Outcome(NoError, Text("Title", kwargs.topic), cur, ctx)
      [] func = "review_article" ->
            IF kwargs.article_content.type # "str"
            THEN Outcome(Error("TypeError", "object has no len()", "", "review_article", <<>>),
                         Text("", NoValue), cur, ctx)
            ELSE IF kwargs.article_content.n > 10
                 THEN Outcome(NoError, Text("APPROVED", NoValue), cur, ctx)
                 ELSE Outcome(NoError, Text("REJECTED: Too short.", NoValue), cur, ctx)
      [] func = "review_article#2" ->
            Outcome(NoError, Text("APPROVED", NoValue), cur, ctx)
      [] func = "transition_state" ->
            IF TransitionError(sts, cur, kwargs.next_state.v) = NoError
            THEN Outcome(NoError, Text("Successfully transitioned to", kwargs.next_state),
                         transition(sts, cur, kwargs.next_state.v), ctx)
            ELSE Outcome(NoError, Text("Error transitioning", kwargs.next_state),
                         transition(sts, cur, kwargs.next_state.v), ctx)
      [] func = "report_sentiment" ->
            Outcome(NoError, Text("Score recorded.", NoValue), cur,
                    [sentiment_score |-> kwargs.score, sentiment_reason |-> kwargs.reason])

\* the call func(**kwargs)
Call(func, kwargs, sts, cur, ctx) ==
    IF BindError(func, kwargs) # NoError
    THEN Outcome(BindError(func, kwargs), Text("", NoValue), cur, ctx)
    ELSE Body(func, kwargs, sts, cur, ctx)

-----------------------------------------------------------------------------
(* fsm_agent/tool_registry.py *)

\* `name in self._tools`
Registered(tls, name) == \E i \in 1..Len(tls) : tls[i].name = name

\* self._tools[name]
Lookup(tls, name) == tls[CHOOSE i \in 1..Len(tls) : tls[i].name = name].func

\* a register that keeps the callable a name already has (setdefault)
register_KeepFirst(tls, func) ==
    IF Registered(tls, FuncName(func))
    THEN tls
    ELSE Append(tls, [name |-> FuncName(func), func |-> func])

\* ToolRegistry.register: self._tools[func.__name__] = func (a dict keeps the
\* position of a key that is assigned again)
register(tls, func) ==
    IF Registered(tls, FuncName(func))
    THEN [i \in 1..Len(tls) |->
             IF tls[i].name = FuncName(func)
             THEN [name |-> FuncName(func), func |-> func] ELSE tls[i]]
    ELSE Append(tls, [name |-> FuncName(func), func |-> func])

\* ToolRegistry.get_tools: list(self._tools.values())
get_tools(tls) == [i \in 1..Len(tls) |-> tls[i].func]

\* the parameters of execute itself, which a keyword argument cannot repeat
OwnParams == {"self", "name"}

\* the call tools.execute(name, **kwargs): execute(self, name, **kwargs) binds
\* self and name positionally, so a key "self" or "name" in kwargs is a
\* TypeError raised before the body runs
ArgumentClash(kwargs) ==
    IF \E k \in DOMAIN kwargs : k \in OwnParams
    THEN Error("TypeError", "multiple values for argument", "",
               IF "self" \in DOMAIN kwargs THEN "self" ELSE "name", <<>>)
    ELSE NoError

\* the call made is one of transition_state whose fsm.transition(next_state)
\* succeeds (main.py line 65)
Moves(call, sts, cur) ==
    /\ call.func = "transition_state"
    /\ BindError(call.func, call.kwargs) = NoError
    /\ TransitionError(sts, cur, call.kwargs.next_state.v) = NoError

\* what execute delivers: the outcome, and the calls it made
Executed(calls, out) ==
    [invoked |-> calls, raised |-> out.raised, value |-> out.value,
     current_state |-> out.current_state, context |-> out.context]

\* an execute that catches what the callable raises and returns a default
execute_Swallow(tls, name, kwargs, sts, cur, ctx) ==
    IF ArgumentClash(kwargs) # NoError
    THEN Executed(<<>>, Outcome(ArgumentClash(kwargs), Text("", NoValue), cur, ctx))
    ELSE IF ~Registered(tls, name)
         THEN Executed(<<>>, Outcome(Error("ValueError", "Tool not found", "", name, <<>>),
                                     Text("", NoValue), cur, ctx))
         ELSE LET out == Call(Lookup(tls, name), kwargs, sts, cur, ctx) IN
              Executed(<<[func |-> Lookup(tls, name), kwargs |-> kwargs]>>,
                       IF out.raised = NoError THEN out
                       ELSE Outcome(NoError, Text("Error executing", NoValue), cur, ctx))

\* an execute that advances the FSM to the first allowed state once the tool
\* has returned
execute_AutoAdvance(tls, name, kwargs, sts, cur, ctx) ==
    IF ArgumentClash(kwargs) # NoError
    THEN Executed(<<>>, Outcome(ArgumentClash(kwargs), Text("", NoValue), cur, ctx))
    ELSE IF ~Registered(tls, name)
         THEN Executed(<<>>, Outcome(Error("ValueError", "Tool not found", "", name, <<>>),
                                     Text("", NoValue), cur, ctx))
         ELSE LET out == Call(Lookup(tls, name), kwargs, sts, cur, ctx) IN
              Executed(<<[func |-> Lookup(tls, name), kwargs |-> kwargs]>>,
                       IF out.raised = NoError
                          /\ get_next_states(sts, out.current_state) # <<>>
                       THEN [out EXCEPT !.current_state =
                                 get_next_states(sts, out.current_state)[1]]
                       ELSE out)

\* ToolRegistry.execute
execute(tls, name, kwargs, sts, cur, ctx) ==
    IF ArgumentClash(kwargs) # NoError
    THEN Executed(<<>>, Outcome(ArgumentClash(kwargs), Text("", NoValue), cur, ctx))
    ELSE IF ~Registered(tls, name)
         THEN Executed(<<>>, Outcome(Error("ValueError", "Tool not found", "", name, <<>>),
                                     Text("", NoValue), cur, ctx))
         ELSE Executed(<<[func |-> Lookup(tls, name), kwargs |-> kwargs]>>,
                       Call(Lookup(tls, name), kwargs, sts, cur, ctx))

-----------------------------------------------------------------------------
(* The ToolRegistry API *)

\* the tools the registry is exercised with: one that moves the FSM, one that
\* writes the shared context, one that only computes (and raises on a bad value)
RegFuncs == {"transition_state", "report_sentiment", "review_article", "review_article#2"}

ExecNames == {FuncName(f) : f \in RegFuncs} \cup {"unknown_tool"}

\* keyword arguments a caller passes: those the tools expect, wrong ones, and
\* each of them with a key that execute's own signature also uses
PlainKwargs ==
    {EmptyDict,
     [next_state |-> PyStr("researching", 11)],
     [next_state |-> PyStr("end", 3)],
     [next_state |-> PyStr("researching", 11), reason |-> PyStr("done", 4)],
     [article_content |-> PyStr("Title: AI (Article content...)", 30)],
     [article_content |-> PyStr("AI", 2)],
     [article_content |-> PyInt(5)],
     [score |-> PyInt(95), reason |-> PyStr("Keyword analysis", 16)]}

Kwargs ==
    PlainKwargs
    \cup {kw @@ [name |-> PyStr("x", 1)] : kw \in PlainKwargs}
    \cup {[self |-> PyStr("x", 1)]}

RegInit ==
    /\ FSM_init(MainArgs)
    /\ path = <<>>
    /\ after_failure = FALSE
    /\ Registry_init
    /\ NoLoop
    /\ seen = NoReads
    /\ latest = EmptyDict

\* tools.register(func)
Register(func) ==
    /\ tools' = register(tools, func)
    /\ last' = Called("register", func, <<func>>, FALSE)
    /\ raised' = NoError
    /\ result' = Text("", NoValue)
    /\ invoked' = <<>>
    /\ after_failure' = (last.op = "transition" /\ raised # NoError)
    /\ latest' = [n \in DOMAIN latest \cup {FuncName(func)} |->
                     IF n = FuncName(func)
                     THEN [func |-> func,
                           earlier |-> IF n \in DOMAIN latest
                                       THEN (latest[n].earlier \cup {latest[n].func}) \ {func}
                                       ELSE {}]
                     ELSE latest[n]]
    /\ UNCHANGED <<fsmVars, path, context, loopVars, seen>>

\* tools.execute(name, **kwargs)
Execute(name, kwargs) ==
    LET out == execute(tools, name, kwargs, states, current_state, context) IN
    /\ last' = CalledWith("execute", name, kwargs)
    /\ raised' = out.raised
    /\ result' = out.value
    /\ invoked' = out.invoked
    /\ current_state' = out.current_state
    /\ context' = out.context
    /\ after_failure' = (last.op = "transition" /\ raised # NoError)
    /\ seen' = IF \E i \in 1..Len(out.invoked) : Moves(out.invoked[i], states, current_state)
               THEN NoReads ELSE seen
    /\ UNCHANGED <<instance, states, terminal_states, args, path, tools, loopVars, latest>>

\* tools.get_tools()
GetTools ==
    /\ last' = Called("get_tools", "", get_tools(tools), FALSE)
    /\ raised' = NoError
    /\ result' = Text("", NoValue)
    /\ invoked' = <<>>
    /\ after_failure' = (last.op = "transition" /\ raised # NoError)
    /\ UNCHANGED <<fsmVars, path, tools, context, loopVars, histVars>>

RegNext ==
    \/ \E func \in RegFuncs : Register(func)
    \/ \E name \in ExecNames : \E kwargs \in Kwargs : Execute(name, kwargs)
    \/ GetTools

RegSpec == RegInit /\ [][RegNext]_vars

\* the FSM and the registry used together, as a driver uses them: every
\* operation of both, execute called the way the two programs call it, for a
\* tool that moves the FSM, one that does not, and a name not registered
ApiFuncs == {"transition_state", "report_sentiment"}

ApiCalls ==
    {[name |-> "transition_state", kwargs |-> [next_state |-> PyStr("researching", 11)]],
     [name |-> "transition_state", kwargs |-> [next_state |-> PyStr("end", 3)]],
     [name |-> "report_sentiment",
      kwargs |-> [score |-> PyInt(95), reason |-> PyStr("Keyword analysis", 16)]],
     [name |-> "unknown_tool", kwargs |-> EmptyDict]}

ApiNext ==
    \/ \E next_state \in Targets : Transition(next_state)
    \/ GetNextStates
    \/ IsTerminal
    \/ Guide
    \/ \E func \in ApiFuncs : Register(func)
    \/ \E call \in ApiCalls : Execute(call.name, call.kwargs)
    \/ GetTools

ApiSpec == RegInit /\ [][ApiNext]_vars

-----------------------------------------------------------------------------
(* The frame of the FSM *)

\* the step is a successful transition call: fsm.transition(target) made
\* directly, or by the callable execute invoked, for a target the graph allows
SuccessfulTransition ==
    \/ last'.op = "transition" /\ InList(last'.arg, Allowed)
    \/ /\ last'.op = "execute"
       /\ \E i \in 1..Len(invoked') :
              /\ invoked'[i].func = "transition_state"
              /\ "next_state" \in DOMAIN invoked'[i].kwargs
              /\ InList(invoked'[i].kwargs.next_state.v, Allowed)

\* C11: every operation that is not a successful transition call
\* (get_next_states, is_terminal, a failing transition, register, get_tools,
\* generate_orchestrator_guide, execute of a tool that does not move the FSM)
\* leaves current_state, the graph and terminal_states as they were; and
\* get_next_states() and is_terminal(), called again with no successful
\* transition in between, return what they returned the first time.
C11_OnlyTransitionMoves ==
    /\ [][~SuccessfulTransition
          => /\ current_state' = current_state
             /\ states' = states
             /\ terminal_states' = terminal_states]_vars
    /\ [](/\ Len(seen.next) = 2 => seen.next[2] = seen.next[1]
          /\ Len(seen.term) = 2 => seen.term[2] = seen.term[1]
          /\ last.op = "get_next_states" => last.list = seen.next[1]
          /\ last.op = "is_terminal" => last.bool = seen.term[1])

\* away from the initial state, both reads repeated, the tools registered and
\* one that writes the context executed, the last call but one a failing
\* transition
C11_Witness ==
    /\ current_state = "writing"
    /\ Len(seen.next) = 2
    /\ Len(seen.term) = 2
    /\ Len(tools) = 2
    /\ context # EmptyDict
    /\ after_failure
    /\ last.op = "generate_orchestrator_guide"

\* C12 (two FSMs constructed alike and fed the same transition calls agree
\* after each call) is not stated here: transition is an operator of the
\* graph, the current state and the target, so two copies of it agree by
\* definition, whatever fsm.py does.

-----------------------------------------------------------------------------
(* The ToolRegistry contract *)

\* the call the step's execute makes if it dispatches to the registered callable
Dispatched(name, kwargs) == <<[func |-> Lookup(tools, name), kwargs |-> kwargs]>>

\* C6: for every registered name and every keyword-argument mapping, whatever
\* its keys, execute invokes the callable registered under the name exactly
\* once with exactly those keyword arguments, invokes nothing else, and
\* delivers exactly what that callable delivers.
C6_ExecuteDispatches ==
    [][(last'.op = "execute" /\ Registered(tools, last'.arg))
       => /\ invoked' = Dispatched(last'.arg, last'.kwargs)
          /\ raised' = Call(Lookup(tools, last'.arg), last'.kwargs,
                            states, current_state, context).raised
          /\ result' = Call(Lookup(tools, last'.arg), last'.kwargs,
                            states, current_state, context).value]_vars

\* C7: execute of a name that is not registered raises the unknown-tool error,
\* invokes no callable, and leaves the registry and the FSM's current_state as
\* they were.
C7_UnknownToolRaises ==
    [][(last'.op = "execute" /\ ~Registered(tools, last'.arg))
       => /\ raised'.type = "ValueError"
          /\ raised'.what = "Tool not found"
          /\ raised'.target = last'.arg
          /\ invoked' = <<>>
          /\ tools' = tools
          /\ current_state' = current_state]_vars

\* C8: when the callable execute invoked raises, execute raises that same error
\* (no value is returned in its place) and the callable was invoked once only.
C8_ToolErrorPropagates ==
    [][(/\ last'.op = "execute"
        /\ invoked' # <<>>
        /\ Call(invoked'[1].func, invoked'[1].kwargs,
                states, current_state, context).raised # NoError)
       => /\ raised' = Call(invoked'[1].func, invoked'[1].kwargs,
                            states, current_state, context).raised
          /\ result' = Text("", NoValue)
          /\ Len(invoked') = 1
          /\ current_state' = current_state
          /\ context' = context]_vars

\* review_article called with a value that has no len(): the TypeError raised
\* inside the callable is what execute raised
C8_Witness ==
    /\ last.op = "execute"
    /\ Len(invoked) = 1
    /\ invoked[1].func = "review_article"
    /\ raised.type = "TypeError"
    /\ raised.what = "object has no len()"

\* the names of the registry's entries, in their order
Names(tls) == [i \in 1..Len(tls) |-> tls[i].name]

\* C14: the registry holds exactly one entry per name ever registered, and it
\* is the callable registered last under that name; register returns the
\* callable it was given, appends a new name at the end and leaves the order of
\* the names alone when the name is there already; execute invokes no callable
\* but the one registered last under the name; get_tools() lists the callables
\* in the order their names were first registered and changes nothing.
C14_RegisterReplaces ==
    /\ [](/\ \A i, j \in 1..Len(tools) : tools[i].name = tools[j].name => i = j
          /\ {tools[i].name : i \in 1..Len(tools)} = DOMAIN latest
          /\ \A i \in 1..Len(tools) : tools[i].func = latest[tools[i].name].func)
    /\ [][last'.op = "register"
          => /\ last'.list = <<last'.arg>>
             /\ Names(tools') = IF InList(FuncName(last'.arg), Names(tools))
                                THEN Names(tools)
                                ELSE Append(Names(tools), FuncName(last'.arg))]_vars
    /\ [][last'.op = "execute"
          => \A i \in 1..Len(invoked') : invoked'[i].func = latest[last'.arg].func]_vars
    /\ [][last'.op = "get_tools"
          => /\ last'.list = [i \in 1..Len(tools) |-> latest[tools[i].name].func]
             /\ tools' = tools]_vars

\* review_article registered first of three tools, registered again as another
\* callable, then executed: the second callable ran, the entry kept its place
C14_Witness ==
    /\ Len(tools) = 3
    /\ tools[1].name = "review_article"
    /\ latest["review_article"].func = "review_article#2"
    /\ "review_article" \in latest["review_article"].earlier
    /\ last.op = "execute"
    /\ Len(invoked) = 1
    /\ invoked[1].func = "review_article#2"

-----------------------------------------------------------------------------
(* main.py: the LLM-driven loop *)

max_steps == 15

\* the most parts a response of the decision source carries
MaxParts == 2

\* an off-by-one step ceiling
LoopGuard_OffByOne(cur, terminals, steps) ==
    ~is_terminal(cur, terminals) /\ steps <= max_steps

\* while not fsm.is_terminal() and step_count < max_steps
LoopGuard(cur, terminals, steps) ==
    ~is_terminal(cur, terminals) /\ steps < max_steps

\* the tools main.py registers, in its order
MainTools ==
    register(register(register(register(<<>>, "research_web"), "write_article"),
                      "review_article"), "transition_state")

\* a part of a response: a function call, or text
FunctionCall(name, kwargs) == [kind |-> "function_call", name |-> name, args |-> kwargs]
TextPart == [kind |-> "text", name |-> "", args |-> EmptyDict]

NameLen == [start |-> 5, researching |-> 11, writing |-> 7, reviewing |-> 9, end |-> 3]

\* what a part of the decision source's answer may be: a transition to any
\* state, a tool call that succeeds, one whose tool raises, one whose arguments
\* do not fit, a call of a tool that does not exist, text
LLMParts ==
    {FunctionCall("transition_state", [next_state |-> PyStr(s, NameLen[s])]) :
        s \in DOMAIN NameLen}
    \cup {FunctionCall("research_web", [topic |-> PyStr("AI", 2)]),
          FunctionCall("write_article",
                       [topic |-> PyStr("AI", 2), research_summary |-> PyStr("vast", 4)]),
          FunctionCall("review_article", [article_content |-> PyInt(5)]),
          FunctionCall("transition_state", [name |-> PyStr("end", 3)]),
          FunctionCall("unknown_tool", EmptyDict),
          TextPart}

\* the lengths a response may have
ResponseLengths == 0..MaxParts

\* the FSM of main.py as written, and with no terminal state declared
\* (an empty terminal_states: never terminal), which leaves "end" a dead end
MainConfigs == {MainArgs, [MainArgs EXCEPT !.terminal_states = <<>>]}

MainInit ==
    /\ \E a \in MainConfigs : FSM_init(a)
    /\ path = <<>>
    /\ after_failure = FALSE
    /\ tools = MainTools
    /\ context = EmptyDict
    /\ result = Text("", NoValue)
    /\ invoked = <<>>
    /\ program = "llm"
    /\ pc = "while"
    /\ step_count = 0
    /\ parts = 0
    /\ user_input = "Write a short article about Artificial Intelligence."
    /\ outcome = ""
    /\ handled = <<>>
    /\ nexec = 0
    /\ seen = NoReads
    /\ latest = [name \in {"research_web", "write_article", "review_article",
                            "transition_state"} |-> [func |-> name, earlier |-> {}]]

\* the loop test of line 88 and, when it fails, the report of lines 153-156
LoopTest ==
    /\ program = "llm"
    /\ pc = "while"
    /\ last' = Called("is_terminal", "", <<>>, is_terminal(current_state, terminal_states))
    /\ raised' = NoError
    /\ invoked' = <<>>
    /\ IF LoopGuard(current_state, terminal_states, step_count)
       THEN /\ step_count' = step_count + 1
            /\ pc' = "generate"
            /\ nexec' = 0
            /\ UNCHANGED outcome
       ELSE /\ pc' = "done"
            /\ outcome' = IF is_terminal(current_state, terminal_states)
                          THEN "completed" ELSE "stopped"
            /\ UNCHANGED <<step_count, nexec>>
    /\ UNCHANGED <<fsmVars, path, after_failure, tools, context, result, program,
                   parts, user_input, handled, histVars>>

\* lines 93-124: the guide and the tool list are read, the decision source
\* answers. The loop reads a part only when it comes to it (line 125), so the
\* answer is drawn here by its length and each part when it is read: the runs
\* are those of drawing the whole response at line 110.
Generate ==
    /\ program = "llm"
    /\ pc = "generate"
    /\ \E n \in ResponseLengths :
           /\ parts' = n
           /\ pc' = IF n = 0 THEN "while" ELSE "parts"
    /\ last' = Called("get_tools", "", get_tools(tools), FALSE)
    /\ raised' = NoError
    /\ invoked' = <<>>
    /\ UNCHANGED <<fsmVars, path, after_failure, tools, context, result, program,
                   step_count, user_input, outcome, handled, nexec, histVars>>

\* lines 125-151: one part of the response; a function call is executed, and
\* whatever it raises is caught and turned into the result
ProcessPart ==
    /\ program = "llm"
    /\ pc = "parts"
    /\ \E part \in LLMParts :
         LET out == execute(tools, part.name, part.args, states, current_state, context)
         IN IF part.kind = "function_call"
            THEN /\ last' = CalledWith("execute", part.name, part.args)
                 /\ raised' = out.raised
                 /\ result' = IF out.raised = NoError THEN out.value
                              ELSE Text("Error executing", NoValue)
                 /\ invoked' = out.invoked
                 /\ current_state' = out.current_state
                 /\ context' = out.context
                 /\ nexec' = nexec + 1
            ELSE UNCHANGED <<last, raised, result, invoked, current_state, context, nexec>>
    /\ parts' = parts - 1
    /\ pc' = IF parts = 1 THEN "while" ELSE "parts"
    /\ UNCHANGED <<instance, states, terminal_states, args, path, after_failure, tools,
                   program, step_count, user_input, outcome, handled, histVars>>

-----------------------------------------------------------------------------
(* example/deterministic.py: the handler-table loop *)

Inputs ==
    {"This framework is absolutely amazing and perfect for my needs! I love it.",
     "This framework is fine."}

\* "amazing" in user_input.lower()
HasAmazing(text) ==
    text = "This framework is absolutely amazing and perfect for my needs! I love it."

\* state_handlers
state_handlers ==
    [start |-> "lambda", analyzing |-> "on_analyzing",
     approved |-> "on_finished", rejected |-> "on_finished"]

\* what a handler leaves: the error it raised, the FSM state, the context, the
\* callables invoked and the number of execute calls made
Handled(err, cur, ctx, calls, n, target) ==
    [raised |-> err, current_state |-> cur, context |-> ctx, invoked |-> calls,
     nexec |-> n, target |-> target]

\* a handler's closing fsm.transition(target)
Move(sts, cur, ctx, calls, n, target) ==
    Handled(TransitionError(sts, cur, target), transition(sts, cur, target),
            ctx, calls, n, target)

\* an on_analyzing that decides without reporting the score
on_analyzing_NoReport(tls, sts, cur, ctx, text) ==
    LET score == IF HasAmazing(text) THEN 95 ELSE 50
        next_state == IF score >= 80 THEN "approved" ELSE "rejected"
    IN Move(sts, cur, ctx, <<>>, 0, next_state)

\* on_analyzing
on_analyzing(tls, sts, cur, ctx, text) ==
    LET score == IF HasAmazing(text) THEN 95 ELSE 50
        out == execute(tls, "report_sentiment",
                       [score |-> PyInt(score), reason |-> PyStr("Keyword analysis", 16)],
                       sts, cur, ctx)
        next_state == IF score >= 80 THEN "approved" ELSE "rejected"
    IN IF out.raised # NoError
       THEN Handled(out.raised, out.current_state, out.context, out.invoked, 1, "")
       ELSE Move(sts, out.current_state, out.context, out.invoked, 1, next_state)

\* handler(), for the handler the table names
RunHandler(handler, tls, sts, cur, ctx, text) ==
    CASE handler = "lambda" -> Move(sts, cur, ctx, <<>>, 0, "analyzing")
      [] handler = "on_analyzing" -> on_analyzing(tls, sts, cur, ctx, text)
      [] handler = "on_finished" -> Move(sts, cur, ctx, <<>>, 0, "end")

\* the FSM of the example as written, and with no terminal state declared,
\* which leaves "end" a non-terminal state without handler
ExampleConfigs == {ExampleArgs, [ExampleArgs EXCEPT !.terminal_states = <<>>]}

DetInit ==
    /\ \E a \in ExampleConfigs : FSM_init(a)
    /\ path = <<>>
    /\ after_failure = FALSE
    /\ tools = register(<<>>, "report_sentiment")
    /\ context = EmptyDict
    /\ result = Text("", NoValue)
    /\ invoked = <<>>
    /\ program = "det"
    /\ pc = "while"
    /\ step_count = 0
    /\ parts = 0
    /\ user_input \in Inputs
    /\ outcome = ""
    /\ handled = <<>>
    /\ nexec = 0
    /\ seen = NoReads
    /\ latest = [name \in {"report_sentiment"} |-> [func |-> name, earlier |-> {}]]

\* lines 86-96: one pass of `while not fsm.is_terminal()`: the handler of the
\* current state runs, or RuntimeError is raised for want of one; an exception
\* leaves the loop and the program
DetIteration ==
    /\ program = "det"
    /\ pc = "while"
    /\ IF is_terminal(current_state, terminal_states)
       THEN /\ pc' = "done"
            /\ outcome' = "completed"
            /\ last' = Called("is_terminal", "", <<>>, TRUE)
            /\ raised' = NoError
            /\ invoked' = <<>>
            /\ UNCHANGED <<current_state, context, handled, nexec>>
       ELSE IF ~InDict(current_state, state_handlers)
            THEN /\ pc' = "done"
                 /\ outcome' = "error"
                 /\ last' = Called("is_terminal", "", <<>>, FALSE)
                 /\ raised' = Error("RuntimeError", "No handler for state",
                                    current_state, "", <<>>)
                 /\ invoked' = <<>>
                 /\ UNCHANGED <<current_state, context, handled, nexec>>
            ELSE LET out == RunHandler(state_handlers[current_state], tools, states,
                                       current_state, context, user_input)
                 IN /\ pc' = IF out.raised = NoError THEN "while" ELSE "done"
                    /\ outcome' = IF out.raised = NoError THEN outcome ELSE "error"
                    /\ last' = Called("transition", out.target, <<>>, FALSE)
                    /\ raised' = out.raised
                    /\ invoked' = out.invoked
                    /\ current_state' = out.current_state
                    /\ context' = out.context
                    /\ handled' = Append(handled,
                                         [state |-> current_state,
                                          handler |-> state_handlers[current_state],
                                          nexec |-> out.nexec])
                    /\ nexec' = out.nexec
    /\ UNCHANGED <<instance, states, terminal_states, args, path, after_failure, tools,
                   result, program, step_count, parts, user_input, histVars>>

-----------------------------------------------------------------------------
(* The two programs *)

LoopInit == MainInit \/ DetInit

LoopNext ==
    \/ LoopTest
    \/ Generate
    \/ ProcessPart
    \/ DetIteration

\* a running program takes its next step: the decision source answers, and
\* nothing else can hold a single-threaded loop up
LoopSpec == LoopInit /\ [][LoopNext]_vars /\ WF_vars(LoopNext)

-----------------------------------------------------------------------------
(* The loop contract *)

\* current_state is in terminal_states
AtTerminal == \E i \in 1..Len(terminal_states) : terminal_states[i] = current_state

\* the three exits: success at a terminal state, the step ceiling reached
\* first, no handler for the current state
ExitSuccess == outcome = "completed" /\ AtTerminal

ExitBudget ==
    /\ outcome = "stopped"
    /\ program = "llm"
    /\ ~AtTerminal
    /\ step_count = max_steps

ExitFatal ==
    /\ outcome = "error"
    /\ program = "det"
    /\ ~AtTerminal
    /\ raised.type = "RuntimeError"
    /\ current_state \notin DOMAIN state_handlers

\* C9: every run of a loop ends, in exactly one of the three exits; the loop of
\* main.py never takes more than max_steps steps, whatever the decision source
\* answers and whether or not the tool calls fail.
C9_LoopTerminates ==
    /\ [](step_count <= max_steps)
    /\ [](pc = "done" =>
            \/ ExitSuccess /\ ~ExitBudget /\ ~ExitFatal
            \/ ExitBudget /\ ~ExitSuccess /\ ~ExitFatal
            \/ ExitFatal /\ ~ExitSuccess /\ ~ExitBudget)
    /\ [](pc # "done" => outcome = "")
    /\ <>(pc = "done")

\* the loop of main.py stopped by its step ceiling, the last tool call a failed one
C9_Witness ==
    /\ program = "llm"
    /\ pc = "done"
    /\ ExitBudget
    /\ last.op = "is_terminal"
    /\ result.text = "Error executing"

\* a dead end: no legal next state, and not a terminal state
DeadEnd == Allowed = <<>> /\ ~AtTerminal

\* the handler table has no entry for the current, non-terminal state
NoHandler == program = "det" /\ ~AtTerminal /\ current_state \notin DOMAIN state_handlers

C13_OneDecisionPerStep ==
    /\ [](nexec <= 1)
    /\ [][(program = "det" /\ pc = "while" /\ pc' = "while")
          => /\ Len(handled') = Len(handled) + 1
             /\ handled'[Len(handled')].state = current_state
             /\ handled'[Len(handled')].handler = state_handlers[current_state]
             /\ handled'[Len(handled')].nexec <= 1]_vars

\* the deterministic example as written
ExampleRun == program = "det" /\ args = ExampleArgs

\* the execute calls the handlers invoked so far have made
RECURSIVE Executes(_)
Executes(hs) == IF hs = <<>> THEN 0 ELSE hs[Len(hs)].nexec + Executes(SubSeq(hs, 1, Len(hs) - 1))

\* the branch the recorded score selects
Verdict == IF context.sentiment_score.n >= 80 THEN "approved" ELSE "rejected"

\* what report_sentiment leaves in the context
Reported ==
    /\ DOMAIN context = {"sentiment_score", "sentiment_reason"}
    /\ context.sentiment_score = PyInt(IF HasAmazing(user_input) THEN 95 ELSE 50)
    /\ context.sentiment_reason = PyStr("Keyword analysis", 16)

\* C16, as claimed: the deterministic example ends at "end" after exactly four
\* handler invocations, for start, analyzing, approved or rejected (by the
\* score) and end, with report_sentiment executed once and nothing raised.
C16_FourHandlers ==
    (ExampleRun /\ pc = "done")
    => /\ current_state = "end"
       /\ raised = NoError
       /\ Reported
       /\ Executes(handled) = 1
       /\ Len(handled) = 4
       /\ handled[1].state = "start"
       /\ handled[2].state = "analyzing"
       /\ handled[3].state = Verdict
       /\ handled[4].state = "end"

\* C16, amended: the deterministic example always ends, at "end", after exactly
\* three handler invocations: for start, for analyzing, and for approved (score
\* >= 80) or rejected (otherwise); at "end" the loop leaves without a handler.
\* report_sentiment is executed exactly once, by the handler of analyzing; the
\* context is written only in that step, in which the FSM leaves analyzing;
\* and no handler raises.
C16_ThreeHandlers ==
    /\ ExampleRun ~> (pc = "done")
    /\ []((ExampleRun /\ pc = "done")
          => /\ current_state = "end"
             /\ outcome = "completed"
             /\ Reported
             /\ Executes(handled) = 1
             /\ Len(handled) = 3
             /\ handled[1] = [state |-> "start", handler |-> "lambda", nexec |-> 0]
             /\ handled[2] = [state |-> "analyzing", handler |-> "on_analyzing", nexec |-> 1]
             /\ handled[3] = [state |-> Verdict, handler |-> "on_finished", nexec |-> 0])
    /\ [](ExampleRun => raised = NoError)
    /\ [][ExampleRun =>
            /\ context' # context
                   => /\ context = EmptyDict
                      /\ current_state = "analyzing"
                      /\ current_state' \in {"approved", "rejected"}
                      /\ Len(invoked') = 1
                      /\ invoked'[1].func = "report_sentiment"
            /\ (current_state = "analyzing" /\ current_state' # "analyzing")
                   => (context = EmptyDict /\ context' # EmptyDict)]_vars

\* the run of the example on a text without "amazing", ended by way of rejected
C16_Witness ==
    /\ ExampleRun
    /\ pc = "done"
    /\ current_state = "end"
    /\ Len(handled) = 3
    /\ handled[3].state = "rejected"
    /\ context.sentiment_score = PyInt(50)

\* C17: once the current state is a terminal state, a loop makes no further
\* ToolRegistry.execute call, not even for the rest of the response whose
\* first tool call reached the terminal state.
C17_NoToolAfterTerminal ==
    [][AtTerminal => nexec' = nexec]_vars

\* C18: the graph and the terminal states of a constructed FSM never change,
\* whatever the caller does with the mapping it passed to the constructor or
\* with a list get_next_states() returned; only current_state changes.
C18_GraphImmutable ==
    [][instance = "usable"
       => /\ states' = states
          /\ terminal_states' = terminal_states
          /\ \A s \in DOMAIN states : get_next_states(states', s) = get_next_states(states, s)]_vars

\* C20: the guide names the current state and lists the legal next states in
\* the order of the graph, and its second line reads "Valid Next States: None
\* (Terminal State)" only when is_terminal() is true of the current state.
C20_GuideTerminalOnlyWhenTerminal ==
    (instance = "usable" /\ last.op = "generate_orchestrator_guide")
    => /\ last.arg = current_state
       /\ last.list = Allowed
       /\ last.bool => AtTerminal

====
